---- MODULE Spec2Model ----
(***************************************************************************)
(* Model of the delfin importer: the TransactionBuilder, the Exante record *)
(* mapper and the timestamp-run grouping of records into transactions.     *)
(*                                                                         *)
(* Four specifications share the variables below:                          *)
(*   Spec      - a TransactionBuilder driven by add_operation / build      *)
(*   SpecIsin  - one string parsed as an ISIN                              *)
(*   SpecMap   - one raw record converted into an Operation                *)
(*   SpecGroup - a slice of records grouped into transactions              *)
(***************************************************************************)
EXTENDS Integers, Sequences, FiniteSets

\* ------------------------------------------------------------------ bounds
MaxOps == 3
MaxTime == 3
MaxRecords == 4
MaxWhen == 2
MaxSum == 2
MaxBuilds == 2
MaxHyphenRun == 2

\* ------------------------------------------------------- Option and Result
None == [some |-> FALSE]
Some(x) == [some |-> TRUE, v |-> x]
Ok(x) == [ok |-> TRUE, v |-> x]
Err(e) == [ok |-> FALSE, err |-> e]

\* Result::ok(): Ok(x) becomes Some(x), an error becomes None.
ResultOk(r) == IF r.ok THEN Some(r.v) ELSE None

\* ------------------------------------------------------------------ Ledger
\* Ledger(String): a tuple struct of the name, Eq and Hash derived from it.
LedgerNew(name) == [name |-> name]

LedgerNames == {"ACC-A", "ACC-B"}

\* ------------------------------------------------------- TransactionBuilder
\* #[derive(Default)]: empty vector, empty set and no dates.
TransactionBuilderDefault ==
    [operations |-> <<>>, ledgers |-> {}, started_at |-> None, finished_at |-> None]

add_operation_no_min(self, operation) ==
    LET executed_at == operation.executed_at
        s1 == [self EXCEPT !.ledgers = @ \cup {operation.ledger}]
        s3 == IF s1.finished_at.some /\ executed_at > s1.finished_at.v
              THEN [s1 EXCEPT !.finished_at = Some(executed_at)]
              ELSE s1
        s4 == IF ~s3.started_at.some /\ ~s3.finished_at.some
              THEN [s3 EXCEPT !.started_at = Some(executed_at),
                              !.finished_at = Some(executed_at)]
              ELSE s3
    IN  [s4 EXCEPT !.operations = Append(@, operation)]

add_operation_first_ledger(self, operation) ==
    LET executed_at == operation.executed_at
        s1 == IF self.ledgers = {}
              THEN [self EXCEPT !.ledgers = {operation.ledger}]
              ELSE self
        s2 == IF s1.started_at.some /\ executed_at < s1.started_at.v
              THEN [s1 EXCEPT !.started_at = Some(executed_at)]
              ELSE s1
        s3 == IF s2.finished_at.some /\ executed_at > s2.finished_at.v
              THEN [s2 EXCEPT !.finished_at = Some(executed_at)]
              ELSE s2
        s4 == IF ~s3.started_at.some /\ ~s3.finished_at.some
              THEN [s3 EXCEPT !.started_at = Some(executed_at),
                              !.finished_at = Some(executed_at)]
              ELSE s3
    IN  [s4 EXCEPT !.operations = Append(@, operation)]

add_operation_push_front(self, operation) ==
    LET executed_at == operation.executed_at
        s1 == [self EXCEPT !.ledgers = @ \cup {operation.ledger}]
        s2 == IF s1.started_at.some /\ executed_at < s1.started_at.v
              THEN [s1 EXCEPT !.started_at = Some(executed_at)]
              ELSE s1
        s3 == IF s2.finished_at.some /\ executed_at > s2.finished_at.v
              THEN [s2 EXCEPT !.finished_at = Some(executed_at)]
              ELSE s2
        s4 == IF ~s3.started_at.some /\ ~s3.finished_at.some
              THEN [s3 EXCEPT !.started_at = Some(executed_at),
                              !.finished_at = Some(executed_at)]
              ELSE s3
    IN  [s4 EXCEPT !.operations = <<operation>> \o @]

add_operation_no_init(self, operation) ==
    LET executed_at == operation.executed_at
        s1 == [self EXCEPT !.ledgers = @ \cup {operation.ledger}]
        s2 == IF s1.started_at.some /\ executed_at < s1.started_at.v
              THEN [s1 EXCEPT !.started_at = Some(executed_at)]
              ELSE s1
        s3 == IF s2.finished_at.some /\ executed_at > s2.finished_at.v
              THEN [s2 EXCEPT !.finished_at = Some(executed_at)]
              ELSE s2
    IN  [s3 EXCEPT !.operations = Append(@, operation)]

\* TransactionBuilder::add_operation (core): the ledger is inserted, the two
\* dates are lowered / raised when already set, both are initialised when
\* neither is set, and the operation is pushed at the end.
add_operation(self, operation) ==
    LET executed_at == operation.executed_at
        s1 == [self EXCEPT !.ledgers = @ \cup {operation.ledger}]
        s2 == IF s1.started_at.some /\ executed_at < s1.started_at.v
              THEN [s1 EXCEPT !.started_at = Some(executed_at)]
              ELSE s1
        s3 == IF s2.finished_at.some /\ executed_at > s2.finished_at.v
              THEN [s2 EXCEPT !.finished_at = Some(executed_at)]
              ELSE s2
        s4 == IF ~s3.started_at.some /\ ~s3.finished_at.some
              THEN [s3 EXCEPT !.started_at = Some(executed_at),
                              !.finished_at = Some(executed_at)]
              ELSE s3
    IN  [s4 EXCEPT !.operations = Append(@, operation)]

\* TransactionBuilder::add_operation (importer): the same statements, on a
\* builder taken and returned by value.
importer_add_operation(self, operation) ==
    LET executed_at == operation.executed_at
        s1 == [self EXCEPT !.ledgers = @ \cup {operation.ledger}]
        s2 == IF s1.started_at.some /\ executed_at < s1.started_at.v
              THEN [s1 EXCEPT !.started_at = Some(executed_at)]
              ELSE s1
        s3 == IF s2.finished_at.some /\ executed_at > s2.finished_at.v
              THEN [s2 EXCEPT !.finished_at = Some(executed_at)]
              ELSE s2
        s4 == IF ~s3.started_at.some /\ ~s3.finished_at.some
              THEN [s3 EXCEPT !.started_at = Some(executed_at),
                              !.finished_at = Some(executed_at)]
              ELSE s3
    IN  [s4 EXCEPT !.operations = Append(@, operation)]

build_no_empty_check(self) ==
    IF self.started_at.some /\ self.finished_at.some
    THEN Ok([operations |-> self.operations,
             ledgers |-> self.ledgers,
             started_at |-> self.started_at.v,
             finished_at |-> self.finished_at.v])
    ELSE Err("Missing dates")

build_default_dates(self) ==
    Ok([operations |-> self.operations,
        ledgers |-> self.ledgers,
        started_at |-> IF self.started_at.some THEN self.started_at.v ELSE 0,
        finished_at |-> IF self.finished_at.some THEN self.finished_at.v ELSE 0])

\* TransactionBuilder::build (core): by reference, cloning the fields.
build(self) ==
    IF Len(self.operations) = 0
    THEN Err("Missing operations")
    ELSE IF self.started_at.some /\ self.finished_at.some
         THEN Ok([operations |-> self.operations,
                  ledgers |-> self.ledgers,
                  started_at |-> self.started_at.v,
                  finished_at |-> self.finished_at.v])
         ELSE Err("Missing dates")

\* TransactionBuilder::build (importer): consumes the builder; there is no
\* emptiness test, only the test of the two dates.
importer_build(self) ==
    IF self.started_at.some /\ self.finished_at.some
    THEN Ok([operations |-> self.operations,
             ledgers |-> self.ledgers,
             started_at |-> self.started_at.v,
             finished_at |-> self.finished_at.v])
    ELSE Err("Missing dates")

\* ------------------------------------------------------------------ strings
\* A string is the sequence of its characters, a character a one-letter
\* string; "U+0663" stands for one non-ASCII decimal digit (a character of
\* the Unicode class Nd).
STR_None == <<"N", "o", "n", "e">>
STR_none == <<"n", "o", "n", "e">>
STR_US0004026250 == <<"U", "S", "0", "0", "0", "4", "0", "2", "6", "2", "5", "0">>
STR_NA_000K0VF05_4 ==
    <<"N", "A", "-", "0", "0", "0", "K", "0", "V", "F", "0", "5", "-", "4">>
STR_A_000K0VF05 == <<"A", "-", "0", "0", "0", "K", "0", "V", "F", "0", "5">>
STR_NA000K0VF054 == <<"N", "A", "0", "0", "0", "K", "0", "V", "F", "0", "5", "4">>
STR_Empty == <<>>
STR_UuidA ==
    <<"6", "7", "e", "5", "5", "0", "4", "4", "-", "1", "0", "b", "1", "-",
      "4", "2", "6", "f", "-", "9", "2", "4", "7", "-",
      "b", "b", "6", "8", "0", "e", "5", "f", "e", "0", "c", "8">>
STR_UuidB ==
    <<"0", "0", "0", "0", "0", "0", "0", "0", "-", "0", "0", "0", "0", "-",
      "0", "0", "0", "0", "-", "0", "0", "0", "0", "-",
      "0", "0", "0", "0", "0", "0", "0", "0", "0", "0", "0", "B">>
STR_OP1234 == <<"O", "P", "1", "2", "3", "4">>

UpperLetters ==
    {"A", "B", "C", "D", "E", "F", "G", "H", "I", "J", "K", "L", "M",
     "N", "O", "P", "Q", "R", "S", "T", "U", "V", "W", "X", "Y", "Z"}
AsciiDigits == {"0", "1", "2", "3", "4", "5", "6", "7", "8", "9"}
\* \d of the regex crate is Unicode-aware: every decimal digit, not only 0-9.
DecimalDigits == AsciiDigits \cup {"U+0663"}
HexDigits == AsciiDigits \cup {"a", "b", "c", "d", "e", "f"}
                         \cup {"A", "B", "C", "D", "E", "F"}

\* -------------------------------------------------------------------- ISIN
\* s.replace('-', ""): every hyphen removed, the other characters kept.
RemoveHyphens(s) == SelectSeq(s, LAMBDA c : c # "-")

\* ^[A-Z]{2}[\dA-Z]{10}$ on the whole text.
iso6166_is_match(n) ==
    /\ Len(n) = 12
    /\ \A i \in 1..2 : n[i] \in UpperLetters
    /\ \A i \in 3..12 : n[i] \in DecimalDigits \cup UpperLetters

ISIN_from_str_store_normalized(s) ==
    LET normalized_value == RemoveHyphens(s)
    IN  IF ~iso6166_is_match(normalized_value)
        THEN Err("InvalidISO6166")
        ELSE Ok([isin |-> normalized_value])

\* ISIN::from_str: the normalized value is matched, the input is stored.
\* The pattern is a constant that compiles, so ISINError::Regex never occurs.
ISIN_from_str(s) ==
    LET normalized_value == RemoveHyphens(s)
    IN  IF ~iso6166_is_match(normalized_value)
        THEN Err("InvalidISO6166")
        ELSE Ok([isin |-> s])

\* ------------------------------------------------------------- OperationId
\* OperationId::parse: succeeds iff the input is a well-formed UUID, taken
\* here as the 8-4-4-4-12 hexadecimal text form; the input is stored.
OperationId_parse(s) ==
    IF /\ Len(s) = 36
       /\ \A i \in {9, 14, 19, 24} : s[i] = "-"
       /\ \A i \in (1..36) \ {9, 14, 19, 24} : s[i] \in HexDigits
    THEN Ok([uuid |-> s])
    ELSE Err("InvalidFormat")

\* --------------------------------------------------------------- f32 amounts
\* An f32 is finite (class "fin", v the amount in the smallest unit), finite
\* but beyond the range of Decimal ("huge", v its sign), infinite ("inf", v
\* its sign) or not a number ("nan").
Fin(v) == [class |-> "fin", v |-> v]
F32Values ==
    {Fin(v) : v \in (-MaxSum)..MaxSum}
        \cup [class : {"huge", "inf"}, v : {-1, 1}]
        \cup {[class |-> "nan", v |-> 0]}

\* self.sum > 0.0: every comparison with NaN is false.
f32_gt_zero(x) == x.class # "nan" /\ x.v > 0

\* f32::abs: the sign is cleared, NaN stays NaN.
f32_abs(x) == [x EXCEPT !.v = IF @ < 0 THEN -@ ELSE @]

\* Decimal::try_from(f32): an error for NaN, the infinities and a value
\* beyond the range of Decimal, otherwise the decimal of the same amount.
Decimal_try_from_f32(x) ==
    IF x.class = "fin" THEN Ok(x.v) ELSE Err("Failed to convert")

\* Decimal::from_f32(x).unwrap_or_default(): zero where there is no decimal.
Decimal_from_f32_or_default(x) ==
    IF x.class = "fin" THEN x.v ELSE 0

\* ----------------------------------------------------------- record mapper
Inflow(op) == [flow |-> "Inflow", op |-> op]
Outflow(op) == [flow |-> "Outflow", op |-> op]
Security(isin) == [tag |-> "Security", isin |-> isin]
Currency(c) == [tag |-> "Currency", currency |-> c]
AssetNew(id, name) == [id |-> id, name |-> name]

try_into_ge_zero(self) ==
    LET kind == IF self.sum.class # "nan" /\ self.sum.v >= 0
                THEN Inflow("Deposit")
                ELSE Outflow("Withdrawal")
        isin == IF self.isin # STR_None THEN ISIN_from_str(self.isin) ELSE Ok(None)
        id == OperationId_parse(self.uuid)
        value == Decimal_try_from_f32(f32_abs(self.sum))
    IN  IF ~isin.ok THEN Err([from |-> "ISIN", err |-> isin.err])
        ELSE IF ~id.ok THEN Err([from |-> "OperationId", err |-> id.err])
        ELSE IF ~value.ok THEN Err([from |-> "Value", err |-> value.err])
        ELSE Ok([id |-> id.v,
                 kind |-> kind,
                 ledger |-> LedgerNew(self.account_id),
                 asset |-> AssetNew(IF self.isin # STR_None
                                    THEN Security(isin.v)
                                    ELSE Currency("USD"), self.asset),
                 value |-> value.v,
                 executed_at |-> self.when])

try_into_no_abs(self) ==
    LET kind == IF f32_gt_zero(self.sum)
                THEN Inflow("Deposit")
                ELSE Outflow("Withdrawal")
        isin == IF self.isin # STR_None THEN ISIN_from_str(self.isin) ELSE Ok(None)
        id == OperationId_parse(self.uuid)
        value == Decimal_try_from_f32(self.sum)
    IN  IF ~isin.ok THEN Err([from |-> "ISIN", err |-> isin.err])
        ELSE IF ~id.ok THEN Err([from |-> "OperationId", err |-> id.err])
        ELSE IF ~value.ok THEN Err([from |-> "Value", err |-> value.err])
        ELSE Ok([id |-> id.v,
                 kind |-> kind,
                 ledger |-> LedgerNew(self.account_id),
                 asset |-> AssetNew(IF self.isin # STR_None
                                    THEN Security(isin.v)
                                    ELSE Currency("USD"), self.asset),
                 value |-> value.v,
                 executed_at |-> self.when])

try_into_unvalidated_isin(self) ==
    LET kind == IF f32_gt_zero(self.sum)
                THEN Inflow("Deposit")
                ELSE Outflow("Withdrawal")
        id == OperationId_parse(self.uuid)
        value == Decimal_try_from_f32(f32_abs(self.sum))
    IN  IF ~id.ok THEN Err([from |-> "OperationId", err |-> id.err])
        ELSE IF ~value.ok THEN Err([from |-> "Value", err |-> value.err])
        ELSE Ok([id |-> id.v,
                 kind |-> kind,
                 ledger |-> LedgerNew(self.account_id),
                 asset |-> AssetNew(IF self.isin # STR_None
                                    THEN Security([isin |-> self.isin])
                                    ELSE Currency("USD"), self.asset),
                 value |-> value.v,
                 executed_at |-> self.when])

try_into_uuid_first(self) ==
    LET kind == IF f32_gt_zero(self.sum)
                THEN Inflow("Deposit")
                ELSE Outflow("Withdrawal")
        isin == IF self.isin # STR_None THEN ISIN_from_str(self.isin) ELSE Ok(None)
        id == OperationId_parse(self.uuid)
        value == Decimal_try_from_f32(f32_abs(self.sum))
    IN  IF ~id.ok THEN Err([from |-> "OperationId", err |-> id.err])
        ELSE IF ~isin.ok THEN Err([from |-> "ISIN", err |-> isin.err])
        ELSE IF ~value.ok THEN Err([from |-> "Value", err |-> value.err])
        ELSE Ok([id |-> id.v,
                 kind |-> kind,
                 ledger |-> LedgerNew(self.account_id),
                 asset |-> AssetNew(IF self.isin # STR_None
                                    THEN Security(isin.v)
                                    ELSE Currency("USD"), self.asset),
                 value |-> value.v,
                 executed_at |-> self.when])

\* impl TryInto<Operation> for &RawRecord (core).  The kind is computed, then
\* the asset id (the first `?`), then the fields of the Operation in the
\* order written: the id (second `?`), the ledger, the asset, the value
\* (third `?`) and executed_at.
try_into(self) ==
    LET kind == IF f32_gt_zero(self.sum)
                THEN Inflow("Deposit")
                ELSE Outflow("Withdrawal")
        isin == IF self.isin # STR_None THEN ISIN_from_str(self.isin) ELSE Ok(None)
        id == OperationId_parse(self.uuid)
        value == Decimal_try_from_f32(f32_abs(self.sum))
    IN  IF ~isin.ok THEN Err([from |-> "ISIN", err |-> isin.err])
        ELSE IF ~id.ok THEN Err([from |-> "OperationId", err |-> id.err])
        ELSE IF ~value.ok THEN Err([from |-> "Value", err |-> value.err])
        ELSE Ok([id |-> id.v,
                 kind |-> kind,
                 ledger |-> LedgerNew(self.account_id),
                 asset |-> AssetNew(IF self.isin # STR_None
                                    THEN Security(isin.v)
                                    ELSE Currency("USD"), self.asset),
                 value |-> value.v,
                 executed_at |-> self.when])

\* impl Into<Operation> for &Record (importer): nothing is validated and
\* nothing fails; the identifiers are wrapped as they are.
importer_into(self) ==
    LET kind == IF f32_gt_zero(self.sum)
                THEN Inflow("Deposit")
                ELSE Outflow("Withdrawal")
        asset_id == IF self.isin # STR_None
                    THEN Security([isin |-> self.isin])
                    ELSE Currency("USD")
    IN  [id |-> [uuid |-> self.uuid],
         kind |-> kind,
         ledger |-> LedgerNew(self.account_id),
         asset |-> AssetNew(asset_id, self.asset),
         value |-> Decimal_from_f32_or_default(f32_abs(self.sum)),
         executed_at |-> self.when]

\* ---------------------------------------------------------------- grouping
\* length of the first run of s: the adjacent elements compared pairwise
FirstRunLen(s) ==
    CHOOSE k \in 1..Len(s) :
        /\ \A i \in 1..(k - 1) : s[i].when = s[i + 1].when
        /\ k = Len(s) \/ s[k].when # s[k + 1].when

RECURSIVE LinearRuns(_)
LinearRuns(s) ==
    IF s = <<>>
    THEN <<>>
    ELSE LET n == FirstRunLen(s)
         IN  <<SubSeq(s, 1, n)>> \o LinearRuns(SubSeq(s, n + 1, Len(s)))

\* the distinct timestamps of s, and the position where each first occurs
WhenKeys(s) == {s[i].when : i \in 1..Len(s)}
FirstAt(s, w) == CHOOSE i \in 1..Len(s) : s[i].when = w /\ \A j \in 1..(i - 1) : s[j].when # w

linear_group_by_key(s) ==
    [k \in 1..Cardinality(WhenKeys(s)) |->
        LET w == CHOOSE x \in WhenKeys(s) :
                    Cardinality({u \in WhenKeys(s) : FirstAt(s, u) < FirstAt(s, x)}) = k - 1
        IN  SelectSeq(s, LAMBDA r : r.when = w)]

\* the runs of s under the predicate a.when <= b.when
FirstRunLenLe(s) ==
    CHOOSE k \in 1..Len(s) :
        /\ \A i \in 1..(k - 1) : s[i].when <= s[i + 1].when
        /\ k = Len(s) \/ s[k].when > s[k + 1].when

RECURSIVE LinearRunsLe(_)
LinearRunsLe(s) ==
    IF s = <<>>
    THEN <<>>
    ELSE LET n == FirstRunLenLe(s)
         IN  <<SubSeq(s, 1, n)>> \o LinearRunsLe(SubSeq(s, n + 1, Len(s)))

linear_group_by_le(s) == LinearRunsLe(s)

\* records.linear_group_by(|a, b| a.when == b.when): the slice is cut where
\* two neighbours differ, every piece is a non-empty run.
linear_group_by(s) == LinearRuns(s)

\* the body of the closure up to build(): each record of the group is
\* converted and added; the `?` leaves the closure with None at the first
\* record that does not convert.
RECURSIVE AddGroup(_, _, _)
AddGroup(group, i, b) ==
    IF i > Len(group)
    THEN Some(b)
    ELSE LET r == ResultOk(try_into(group[i]))
         IN  IF ~r.some
             THEN None
             ELSE AddGroup(group, i + 1, add_operation(b, r.v))

GroupClosure_skip_first(group) ==
    LET b == AddGroup(group, 2, TransactionBuilderDefault)
    IN  IF ~b.some THEN None ELSE ResultOk(build(b.v))

\* the closure given to filter_map (core)
GroupClosure(group) ==
    LET b == AddGroup(group, 1, TransactionBuilderDefault)
    IN  IF ~b.some THEN None ELSE ResultOk(build(b.v))

RECURSIVE FilterMap(_)
FilterMap(groups) ==
    IF groups = <<>>
    THEN <<>>
    ELSE LET x == GroupClosure(Head(groups))
         IN  (IF x.some THEN <<x.v>> ELSE <<>>) \o FilterMap(Tail(groups))

group_records_into_transactions_fail_fast(rs) ==
    IF \E i \in 1..Len(rs) : ~try_into(rs[i]).ok
    THEN LET i == CHOOSE j \in 1..Len(rs) :
                     /\ ~try_into(rs[j]).ok
                     /\ \A h \in 1..(j - 1) : try_into(rs[h]).ok
         IN  Err(try_into(rs[i]).err)
    ELSE Ok(FilterMap(linear_group_by(rs)))

\* group_records_into_transactions (core): always Ok of the collected vector.
group_records_into_transactions(rs) ==
    Ok(FilterMap(linear_group_by(rs)))

\* the loop of the importer's closure: the conversion cannot fail
RECURSIVE ImporterAddGroup(_, _, _)
ImporterAddGroup(group, i, b) ==
    IF i > Len(group)
    THEN b
    ELSE ImporterAddGroup(group, i + 1,
                          importer_add_operation(b, importer_into(group[i])))

\* the closure given to filter_map (importer)
ImporterGroupClosure(group) ==
    ResultOk(importer_build(ImporterAddGroup(group, 1, TransactionBuilderDefault)))

RECURSIVE ImporterFilterMap(_)
ImporterFilterMap(groups) ==
    IF groups = <<>>
    THEN <<>>
    ELSE LET x == ImporterGroupClosure(Head(groups))
         IN  (IF x.some THEN <<x.v>> ELSE <<>>) \o ImporterFilterMap(Tail(groups))

\* group_records_into_transactions (importer): the vector itself.
importer_group_records_into_transactions(rs) ==
    ImporterFilterMap(linear_group_by(rs))

\* ---------------------------------------------------------------- variables
VARIABLES
    pkg,         \* which package's builder is in use: "core" or "importer"
    tx_builder,  \* the TransactionBuilder
    moved,       \* the builder was consumed by the importer's build(self)
    added,       \* the operations passed to add_operation, in call order
    last,        \* the last call made on the builder
    tx,          \* what the last build() returned, None before the first
    returned,    \* the Transactions build() returned for this builder, in order
    failed,      \* a build() of this builder has returned an error
    input,       \* SpecIsin: the string given to ISIN::from_str
    parsed,      \* SpecIsin: the result of the parse, None before the call
    record,      \* SpecMap: the raw record
    mapped,      \* SpecMap: the core mapper's result, None before the call
    imapped,     \* SpecMap: the importer mapper's result
    records,     \* SpecGroup: the input slice
    pc,          \* SpecGroup: "start", then the function that ran
    output       \* SpecGroup: what the function returned

vars == <<pkg, tx_builder, moved, added, last, tx, returned, failed,
          input, parsed, record, mapped, imapped, records, pc, output>>

builderVars == <<pkg, tx_builder, moved, added, last, tx, returned, failed>>
isinVars == <<input, parsed>>
mapVars == <<record, mapped, imapped>>
groupVars == <<records, pc, output>>

\* --------------------------------------------- operations given to a builder
\* A builder accepts any Operation value; what it reads is the ledger and
\* executed_at, the id tells the elements of the list apart.
OperationPool ==
    [id : {"OP1", "OP2"},
     kind : {<<"Inflow", "Deposit">>},
     ledger : {LedgerNew(n) : n \in LedgerNames},
     asset : {[id |-> <<"Currency", "USD">>, name |-> "USD"]},
     value : {1},
     executed_at : 1..MaxTime]

\* ---------------------------------------------------------- Spec: the builder
Init ==
    /\ pkg \in {"core", "importer"}
    /\ tx_builder = TransactionBuilderDefault
    /\ moved = FALSE
    /\ added = <<>>
    /\ last = "default"
    /\ tx = None
    /\ returned = <<>>
    /\ failed = FALSE
    /\ input = <<>>
    /\ parsed = None
    /\ record = None
    /\ mapped = None
    /\ imapped = None
    /\ records = <<>>
    /\ pc = "idle"
    /\ output = None

\* TransactionBuilder::default(): a fresh builder of either package.
NewBuilder ==
    /\ last # "default"
    /\ pkg' \in {"core", "importer"}
    /\ tx_builder' = TransactionBuilderDefault
    /\ moved' = FALSE
    /\ added' = <<>>
    /\ last' = "default"
    /\ tx' = None
    /\ returned' = <<>>
    /\ failed' = FALSE
    /\ UNCHANGED <<mapVars, groupVars, isinVars>>

AddOperation_aliasing ==
    /\ pkg = "core"
    /\ Len(added) < MaxOps
    /\ \E operation \in OperationPool :
          /\ tx_builder' = add_operation(tx_builder, operation)
          /\ added' = Append(added, operation)
    /\ returned' = [i \in 1..Len(returned) |->
                      [returned[i] EXCEPT !.operations = tx_builder'.operations]]
    /\ last' = "add_operation"
    /\ UNCHANGED <<pkg, moved, tx, failed, mapVars, groupVars, isinVars>>

\* add_operation(&mut self, operation) on the core builder
AddOperation ==
    /\ pkg = "core"
    /\ Len(added) < MaxOps
    /\ \E operation \in OperationPool :
          /\ tx_builder' = add_operation(tx_builder, operation)
          /\ added' = Append(added, operation)
    /\ last' = "add_operation"
    /\ UNCHANGED <<pkg, moved, tx, returned, failed, mapVars, groupVars, isinVars>>

Build_failure_sets_dates ==
    /\ pkg = "core"
    /\ Len(returned) < MaxBuilds
    /\ tx' = Some(build(tx_builder))
    /\ returned' = IF build(tx_builder).ok
                   THEN Append(returned, build(tx_builder).v)
                   ELSE returned
    /\ failed' = (failed \/ ~build(tx_builder).ok)
    /\ tx_builder' = IF build(tx_builder).ok
                     THEN tx_builder
                     ELSE [tx_builder EXCEPT !.started_at = Some(0),
                                             !.finished_at = Some(0)]
    /\ last' = "build"
    /\ UNCHANGED <<pkg, moved, added, mapVars, groupVars, isinVars>>

\* build(&mut self): the builder is left as it is and stays usable; the
\* result goes to the caller.
Build ==
    /\ pkg = "core"
    /\ Len(returned) < MaxBuilds
    /\ tx' = Some(build(tx_builder))
    /\ returned' = IF build(tx_builder).ok
                   THEN Append(returned, build(tx_builder).v)
                   ELSE returned
    /\ failed' = (failed \/ ~build(tx_builder).ok)
    /\ last' = "build"
    /\ UNCHANGED <<pkg, tx_builder, moved, added, mapVars, groupVars, isinVars>>

ImporterAddOperation ==
    /\ pkg = "importer"
    /\ ~moved
    /\ Len(added) < MaxOps
    /\ \E operation \in OperationPool :
          /\ tx_builder' = importer_add_operation(tx_builder, operation)
          /\ added' = Append(added, operation)
    /\ last' = "add_operation"
    /\ UNCHANGED <<pkg, moved, tx, returned, failed, mapVars, groupVars, isinVars>>

ImporterBuild ==
    /\ pkg = "importer"
    /\ ~moved
    /\ tx' = Some(importer_build(tx_builder))
    /\ returned' = IF importer_build(tx_builder).ok
                   THEN Append(returned, importer_build(tx_builder).v)
                   ELSE returned
    /\ failed' = (failed \/ ~importer_build(tx_builder).ok)
    /\ moved' = TRUE
    /\ last' = "build"
    /\ UNCHANGED <<pkg, tx_builder, added, mapVars, groupVars, isinVars>>

Next ==
    \/ NewBuilder
    \/ AddOperation
    \/ Build
    \/ ImporterAddOperation
    \/ ImporterBuild

Spec == Init /\ [][Next]_vars

\* ------------------------------------------------- SpecMap: the record mapper
\* The fields of RawRecord / Record; the mapper reads account_id, isin, when,
\* sum, asset and uuid.
IsinFields ==
    {STR_None, STR_none, STR_US0004026250, STR_NA_000K0VF05_4,
     STR_A_000K0VF05, STR_Empty}
UuidFields == {STR_UuidA, STR_OP1234, STR_Empty}

MapRecordPool ==
    [tx_id : {"1001"},
     account_id : {"ACC-A"},
     symbol_id : {"None"},
     isin : IsinFields,
     operation_type : {"FUNDING/WITHDRAWAL"},
     when : {1},
     sum : F32Values,
     asset : {"USD"},
     uuid : UuidFields]

InitMap ==
    /\ pkg = "core"
    /\ tx_builder = TransactionBuilderDefault
    /\ moved = FALSE
    /\ added = <<>>
    /\ last = "default"
    /\ tx = None
    /\ returned = <<>>
    /\ failed = FALSE
    /\ input = <<>>
    /\ parsed = None
    /\ record \in MapRecordPool
    /\ mapped = None
    /\ imapped = None
    /\ records = <<>>
    /\ pc = "idle"
    /\ output = None

\* (&record).try_into() of the core package
Map ==
    /\ mapped = None
    /\ mapped' = Some(try_into(record))
    /\ UNCHANGED <<builderVars, record, imapped, groupVars, isinVars>>

\* (&record).into() of the importer package
ImporterMap ==
    /\ imapped = None
    /\ imapped' = Some(importer_into(record))
    /\ UNCHANGED <<builderVars, record, mapped, groupVars, isinVars>>

NextMap ==
    \/ Map
    \/ ImporterMap

SpecMap == InitMap /\ [][NextMap]_vars

\* ---------------------------------------------------- claims about the mapper
Abs(n) == IF n < 0 THEN -n ELSE n
Negated(r) == [r EXCEPT !.sum.v = -@]

\* C8: the mapper classifies by the sign of the amount alone: a strictly
\* positive Sum gives Inflow(Deposit), every other Sum (zero, negative) gives
\* Outflow(Withdrawal), and no other kind is produced.
C8_KindBySign ==
    /\ (mapped.some /\ mapped.v.ok) =>
          /\ record.sum.v > 0 => mapped.v.v.kind = Inflow("Deposit")
          /\ record.sum.v <= 0 => mapped.v.v.kind = Outflow("Withdrawal")
          /\ mapped.v.v.kind \in {Inflow("Deposit"), Outflow("Withdrawal")}
    /\ imapped.some =>
          /\ record.sum.v > 0 => imapped.v.kind = Inflow("Deposit")
          /\ record.sum.v <= 0 => imapped.v.kind = Outflow("Withdrawal")
          /\ imapped.v.kind \in {Inflow("Deposit"), Outflow("Withdrawal")}

\* a record with Sum = 0 was mapped by the core mapper into a withdrawal
C8_Witness ==
    /\ mapped.some
    /\ mapped.v.ok
    /\ record.sum = Fin(0)
    /\ mapped.v.v.kind = Outflow("Withdrawal")

WellFormedIsinFields == {STR_US0004026250, STR_NA_000K0VF05_4}
IllFormedIsinFields == {STR_none, STR_A_000K0VF05, STR_Empty}

C10_WitnessSecurity ==
    /\ mapped.some
    /\ mapped.v.ok
    /\ record.isin = STR_NA_000K0VF05_4
    /\ mapped.v.v.asset.id.tag = "Security"

\* ------------------------------------------------ SpecGroup: the grouping
\* Four kinds of record at each timestamp: two that convert (a deposit on
\* one account, a withdrawal of a security on the other), one with an ISIN
\* field that is refused and one with a UUID field that is refused.
GroupRecordPool ==
    {[tx_id |-> "1001", account_id |-> k.account_id, symbol_id |-> "None",
      isin |-> k.isin, operation_type |-> "TRADE", when |-> w,
      sum |-> k.sum, asset |-> "USD", uuid |-> k.uuid] :
        w \in 1..MaxWhen,
        k \in {[account_id |-> "ACC-A", isin |-> STR_None,
                uuid |-> STR_UuidA, sum |-> Fin(1)],
               [account_id |-> "ACC-B", isin |-> STR_US0004026250,
                uuid |-> STR_UuidB, sum |-> Fin(-1)],
               [account_id |-> "ACC-A", isin |-> STR_A_000K0VF05,
                uuid |-> STR_UuidA, sum |-> Fin(1)],
               [account_id |-> "ACC-B", isin |-> STR_None,
                uuid |-> STR_OP1234, sum |-> Fin(1)]}}

InitGroup ==
    /\ pkg = "core"
    /\ tx_builder = TransactionBuilderDefault
    /\ moved = FALSE
    /\ added = <<>>
    /\ last = "default"
    /\ tx = None
    /\ returned = <<>>
    /\ failed = FALSE
    /\ input = <<>>
    /\ parsed = None
    /\ record = None
    /\ mapped = None
    /\ imapped = None
    /\ records \in UNION {[1..n -> GroupRecordPool] : n \in 0..MaxRecords}
    /\ pc = "start"
    /\ output = None

\* group_records_into_transactions(&records) of the core package
Group ==
    /\ pc = "start"
    /\ output' = Some(group_records_into_transactions(records))
    /\ pc' = "core"
    /\ UNCHANGED <<builderVars, mapVars, records, isinVars>>

\* group_records_into_transactions(&records) of the importer package
ImporterGroup ==
    /\ pc = "start"
    /\ output' = Some(importer_group_records_into_transactions(records))
    /\ pc' = "importer"
    /\ UNCHANGED <<builderVars, mapVars, records, isinVars>>

NextGroup ==
    \/ Group
    \/ ImporterGroup

SpecGroup == InitGroup /\ [][NextGroup]_vars

\* --------------------------------------------------- claims about the grouping
Whens == [i \in 1..Len(records) |-> records[i].when]
AllConvert == \A i \in 1..Len(records) : try_into(records[i]).ok

\* the transactions returned, of either package
Transactions == IF pc = "core" THEN output.v.v ELSE output.v

RECURSIVE SumLens(_, _)
SumLens(T, k) == IF k = 0 THEN 0 ELSE SumLens(T, k - 1) + Len(T[k].operations)

\* T cuts the input into maximal runs of equal timestamps: transaction k
\* holds the operations of the records s..e that follow those of the
\* transactions before it, these records have one timestamp, and the record
\* after e, if any, has another.
RunGrouped(T, expected) ==
    /\ SumLens(T, Len(T)) = Len(records)
    /\ \A k \in 1..Len(T) :
          LET s == SumLens(T, k - 1) + 1
              e == SumLens(T, k)
          IN  /\ e >= s
              /\ \A i \in s..e :
                    /\ T[k].operations[i - s + 1] = expected[i]
                    /\ records[i].when = records[s].when
              /\ e < Len(records) => records[e + 1].when # records[e].when

\* C5: grouping is by adjacency, not by key: each group is a maximal run of
\* adjacent records with one timestamp, consecutive groups have different
\* timestamps, and equal timestamps separated by another timestamp land in
\* different transactions ([t1, t1, t2, t1] gives [t1,t1], [t2], [t1]).
C5_RunBasedGrouping ==
    /\ (pc = "core" /\ AllConvert) =>
          RunGrouped(output.v.v, [i \in 1..Len(records) |-> try_into(records[i]).v])
    /\ pc = "importer" =>
          RunGrouped(output.v, [i \in 1..Len(records) |-> importer_into(records[i])])
    /\ (pc \in {"core", "importer"} /\ Whens = <<1, 1, 2, 1>> /\ AllConvert) =>
          /\ Len(Transactions) = 3
          /\ Len(Transactions[1].operations) = 2
          /\ Len(Transactions[2].operations) = 1
          /\ Len(Transactions[3].operations) = 1

\* the records [t1, t1, t2, t1], all converting, gave three transactions
C5_Witness ==
    /\ pc = "core"
    /\ Whens = <<1, 1, 2, 1>>
    /\ AllConvert
    /\ Len(output.v.v) = 3

\* the runs of the input, by the position of their first record
RunStarts == {i \in 1..Len(records) : i = 1 \/ records[i].when # records[i - 1].when}
RunEnd(s) ==
    CHOOSE e \in s..Len(records) :
        /\ \A i \in s..e : records[i].when = records[s].when
        /\ e = Len(records) \/ records[e + 1].when # records[e].when
\* the runs whose records all convert
GoodRunStarts == {s \in RunStarts : \A i \in s..RunEnd(s) : try_into(records[i]).ok}
KthGoodRun(k) ==
    CHOOSE s \in GoodRunStarts : Cardinality({u \in GoodRunStarts : u < s}) = k - 1

\* C6 (as claimed): a mapping failure is scoped to the record that failed:
\* every other record that converts, those of the same timestamp run
\* included, still contributes its operation to an output Transaction.
C6_FailureScopedToRecord ==
    pc = "core" =>
        \A i \in 1..Len(records) :
            try_into(records[i]).ok =>
                \E k \in 1..Len(output.v.v) :
                    \E j \in 1..Len(output.v.v[k].operations) :
                        output.v.v[k].operations[j] = try_into(records[i]).v

\* C7: group_records_into_transactions never fails: it returns Ok for every
\* input; a group that yields no Transaction is omitted, and every group
\* whose records all convert yields exactly one Transaction, in the input
\* order of the groups.
C7_AlwaysOkGoodGroupsKept ==
    pc = "core" =>
        /\ output.v.ok
        /\ Len(output.v.v) = Cardinality(GoodRunStarts)
        /\ \A k \in 1..Len(output.v.v) :
              LET s == KthGoodRun(k)
              IN  output.v.v[k].operations =
                      [j \in 1..(RunEnd(s) - s + 1) |-> try_into(records[s + j - 1]).v]

\* an input with a run that is dropped between two runs that are kept
C7_Witness ==
    /\ pc = "core"
    /\ Len(records) = 4
    /\ RunStarts = {1, 2, 4}
    /\ GoodRunStarts = {1, 4}
    /\ output.v.ok
    /\ Len(output.v.v) = 2

\* ------------------------------------------------- claims about the builder
Times(ops) == {ops[i].executed_at : i \in 1..Len(ops)}
MinTime(ops) == CHOOSE t \in Times(ops) : \A u \in Times(ops) : t <= u
MaxTime_(ops) == CHOOSE t \in Times(ops) : \A u \in Times(ops) : t >= u
LedgersOf(ops) == {ops[i].ledger : i \in 1..Len(ops)}

\* a build() has just returned for a builder that was given operations
BuiltAfterAdds == last = "build" /\ Len(added) >= 1

\* C1: for any non-empty sequence of operations given to add_operation, in
\* any order of their executed_at, the Transaction returned by build() has
\* started_at equal to the minimum and finished_at equal to the maximum
\* executed_at of the added operations.
C1_StartedMinFinishedMax ==
    BuiltAfterAdds =>
        /\ tx.v.ok
        /\ tx.v.v.started_at = MinTime(added)
        /\ tx.v.v.finished_at = MaxTime_(added)

\* three operations added with the latest first and the earliest in the
\* middle, then built
C1_Witness ==
    /\ BuiltAfterAdds
    /\ Len(added) = 3
    /\ added[1].executed_at > added[3].executed_at
    /\ added[3].executed_at > added[2].executed_at
    /\ tx.v.ok

\* C2: the built Transaction's ledgers is exactly the set of distinct ledger
\* values of the added operations: none missing, none extra, a ledger used
\* by several operations counted once.
C2_LedgersExact ==
    BuiltAfterAdds =>
        /\ tx.v.ok
        /\ tx.v.v.ledgers = LedgersOf(added)
        /\ Cardinality(tx.v.v.ledgers) = Cardinality({added[i].ledger.name : i \in 1..Len(added)})

\* three operations on two ledgers, one ledger used twice, then built
C2_Witness ==
    /\ BuiltAfterAdds
    /\ Len(added) = 3
    /\ added[1].ledger = added[3].ledger
    /\ added[1].ledger # added[2].ledger
    /\ tx.v.ok

\* C3: build() on a builder to which no operation was ever added fails with
\* the "Missing operations" error and returns no Transaction.
C3_EmptyBuildFails ==
    (pkg = "core" /\ last = "build" /\ added = <<>>) =>
        tx.v = Err("Missing operations")

\* build() was called on a fresh core builder
C3_Witness ==
    /\ pkg = "core"
    /\ last = "build"
    /\ added = <<>>
    /\ ~tx.v.ok

\* C4: after one or more add_operation calls build() succeeds and the
\* returned operations are the added operations in insertion order.
C4_OperationsInInsertionOrder ==
    BuiltAfterAdds =>
        /\ tx.v.ok
        /\ tx.v.v.operations = added

\* three operations, not all equal, were added and the builder built
C4_Witness ==
    /\ BuiltAfterAdds
    /\ Len(added) = 3
    /\ added[1] # added[2]
    /\ added[2] # added[3]
    /\ tx.v.ok
    /\ Len(tx.v.v.operations) = 3

\* -------------------------------------------- more claims about the mapper
\* the UUID fields of the pool that are UUIDs, and those that are not
WellFormedUuidFields == {STR_UuidA}
IllFormedUuidFields == {STR_OP1234, STR_Empty}

\* C11: record mapping is all-or-nothing and reports the first failure: an
\* Operation is produced only if the ISIN field (when not "None") and the
\* UUID field both validate, otherwise the result is an error and no
\* Operation; when both fields are invalid the error is the ISIN one.
C11_AllOrNothingFirstFailure ==
    mapped.some =>
        /\ mapped.v.ok =>
              /\ record.isin \in {STR_None} \cup WellFormedIsinFields
              /\ record.uuid \in WellFormedUuidFields
              /\ DOMAIN mapped.v = {"ok", "v"}
              /\ DOMAIN mapped.v.v =
                    {"id", "kind", "ledger", "asset", "value", "executed_at"}
              /\ mapped.v.v.id = [uuid |-> record.uuid]
        /\ ~mapped.v.ok => DOMAIN mapped.v = {"ok", "err"}
        /\ record.isin \in IllFormedIsinFields =>
              /\ ~mapped.v.ok
              /\ mapped.v.err = [from |-> "ISIN", err |-> "InvalidISO6166"]
        /\ (record.isin \notin IllFormedIsinFields
                /\ record.uuid \in IllFormedUuidFields) =>
              /\ ~mapped.v.ok
              /\ mapped.v.err = [from |-> "OperationId", err |-> "InvalidFormat"]

\* a record whose ISIN field and UUID field are both refused was mapped and
\* the error is the one of the ISIN
C11_Witness ==
    /\ mapped.some
    /\ record.isin = STR_A_000K0VF05
    /\ record.uuid = STR_OP1234
    /\ ~mapped.v.ok
    /\ mapped.v.err.from = "ISIN"

\* ------------------------------------------------ SpecIsin: parsing an ISIN
\* The inputs are built from two ISINs of the tests: one character may be
\* replaced, the text shortened at either end or lengthened, and runs of
\* hyphens put at the front, after the country code, before the last
\* character and at the end.
IsinBases == {STR_US0004026250, STR_NA000K0VF054}
IsinAlphabet == {"A", "Z", "a", "0", "9", "U+0663", "!", " "}
IsinResizes == {"same", "drop_last", "drop_first", "append"}
HyphenSlots == {0, 2, 11, 12}

ReplaceAt(b, p, c) == IF p = 0 THEN b ELSE [b EXCEPT ![p] = c]
Resize(b, m) ==
    CASE m = "same" -> b
      [] m = "drop_last" -> SubSeq(b, 1, Len(b) - 1)
      [] m = "drop_first" -> Tail(b)
      [] m = "append" -> Append(b, "0")
HyphenRun(n) == [i \in 1..n |-> "-"]

\* b with a run of n hyphens after each of its first k characters, k in H
RECURSIVE WithHyphens(_, _, _, _)
WithHyphens(b, H, n, k) ==
    IF k > Len(b)
    THEN <<>>
    ELSE (IF k = 0 THEN <<>> ELSE <<b[k]>>)
            \o (IF k \in H THEN HyphenRun(n) ELSE <<>>)
            \o WithHyphens(b, H, n, k + 1)

IsinInputs ==
    {WithHyphens(Resize(ReplaceAt(b, p, c), m), H, n, 0) :
        b \in IsinBases, p \in 0..12, c \in IsinAlphabet,
        m \in IsinResizes, H \in SUBSET HyphenSlots, n \in 1..MaxHyphenRun}

InitIsin ==
    /\ pkg = "core"
    /\ tx_builder = TransactionBuilderDefault
    /\ moved = FALSE
    /\ added = <<>>
    /\ last = "default"
    /\ tx = None
    /\ returned = <<>>
    /\ failed = FALSE
    /\ input \in IsinInputs
    /\ parsed = None
    /\ record = None
    /\ mapped = None
    /\ imapped = None
    /\ records = <<>>
    /\ pc = "idle"
    /\ output = None

\* input.parse::<ISIN>()
ParseIsin ==
    /\ parsed = None
    /\ parsed' = Some(ISIN_from_str(input))
    /\ UNCHANGED <<builderVars, input, mapVars, groupVars>>

NextIsin == ParseIsin

SpecIsin == InitIsin /\ [][NextIsin]_vars

\* ------------------------------------------------ claims about ISIN parsing
Hyphenless(s) == SelectSeq(s, LAMBDA c : c # "-")
HasHyphen(s) == \E i \in 1..Len(s) : s[i] = "-"

\* two uppercase ASCII letters, then ten characters each an uppercase ASCII
\* letter or one of the digits 0-9
IsIsinText(n) ==
    /\ Len(n) = 12
    /\ \A i \in 1..2 : n[i] \in UpperLetters
    /\ \A i \in 3..12 : n[i] \in UpperLetters \cup AsciiDigits

\* C12 (as claimed): ISIN parsing succeeds if and only if the input, after
\* removing every hyphen, is exactly 12 characters: 2 uppercase ASCII
\* letters followed by 10 characters each an uppercase letter or a digit;
\* every other input fails with the invalid-format error.
C12_ParsesIffIsinText ==
    parsed.some =>
        /\ parsed.v.ok <=> IsIsinText(Hyphenless(input))
        /\ ~parsed.v.ok => parsed.v.err = "InvalidISO6166"

\* C13: when ISIN parsing succeeds the stored value is the original input,
\* hyphens included; the hyphens are removed for the validation only, so
\* the input and its hyphenless form are stored as different values.
C13_StoresOriginalInput ==
    (parsed.some /\ parsed.v.ok) =>
        /\ parsed.v.v = [isin |-> input]
        /\ HasHyphen(input) =>
              /\ ISIN_from_str(Hyphenless(input)).ok
              /\ ISIN_from_str(Hyphenless(input)).v # parsed.v.v

\* an input with hyphens at the front, inside and at the end was accepted
C13_Witness ==
    /\ parsed.some
    /\ parsed.v.ok
    /\ Len(input) > 12
    /\ input[1] = "-"
    /\ input[Len(input)] = "-"
    /\ parsed.v.v.isin = input

\* -------------------------------------------- more claims about the builder
SnapshotOf(ops) ==
    [operations |-> ops,
     ledgers |-> LedgersOf(ops),
     started_at |-> MinTime(ops),
     finished_at |-> MaxTime_(ops)]

WellFormedTransaction(t) ==
    /\ Len(t.operations) >= 1
    /\ t.started_at <= t.finished_at
    /\ t.started_at \in Times(t.operations)
    /\ t.finished_at \in Times(t.operations)

\* C15: every Transaction that any sequence of add_operation and build()
\* calls produces has a non-empty operations list, started_at <=
\* finished_at, and both dates are the executed_at of a contained operation.
C15_TransactionInvariants ==
    /\ \A i \in 1..Len(returned) : WellFormedTransaction(returned[i])
    /\ (tx.some /\ tx.v.ok) => WellFormedTransaction(tx.v.v)

\* the importer's builder returned a Transaction of three operations that
\* spans more than one instant
C15_Witness ==
    /\ pkg = "importer"
    /\ Len(returned) = 1
    /\ Len(returned[1].operations) = 3
    /\ returned[1].started_at < returned[1].finished_at

\* C16: a build() that fails on an empty builder leaves the builder
\* accumulating with its state unchanged: nothing is returned by it, and a
\* following add_operation and build() succeeds and returns a Transaction
\* of exactly the operations added.
C16_FailedBuildLeavesBuilder ==
    (pkg = "core" /\ failed) =>
        /\ tx_builder.operations = added
        /\ added = <<>> => (tx_builder = TransactionBuilderDefault /\ returned = <<>>)
        /\ BuiltAfterAdds => tx.v = Ok(SnapshotOf(added))

\* build() failed on the empty builder, then two operations were added and
\* build() succeeded
C16_Witness ==
    /\ pkg = "core"
    /\ failed
    /\ BuiltAfterAdds
    /\ Len(added) = 2
    /\ tx.v.ok
    /\ Len(returned) = 1

\* C19: in every builder state started_at is unset exactly when finished_at
\* is unset exactly when the operation list is empty; so build() cannot
\* fail with "Missing dates" on a non-empty list, and the only build()
\* failure is the one of the empty builder.
C19_DatesSetIffOperations ==
    /\ tx_builder.started_at.some <=> tx_builder.finished_at.some
    /\ tx_builder.started_at.some <=> Len(tx_builder.operations) > 0
    /\ (last = "build" /\ Len(tx_builder.operations) > 0) => tx.v.ok
    /\ (last = "build" /\ ~tx.v.ok) =>
          /\ added = <<>>
          /\ pkg = "core" => tx.v.err = "Missing operations"

\* a builder holding three operations that span more than one instant
C19_Witness ==
    /\ Len(tx_builder.operations) = 3
    /\ tx_builder.started_at.some
    /\ tx_builder.finished_at.some
    /\ tx_builder.started_at.v < tx_builder.finished_at.v
    /\ last = "add_operation"

\* ------------------------------------------- more claims about the grouping
RECURSIVE Flatten(_)
Flatten(T) == IF T = <<>> THEN <<>> ELSE Head(T).operations \o Flatten(Tail(T))

KthRun(k) == CHOOSE s \in RunStarts : Cardinality({u \in RunStarts : u < s}) = k - 1

\* C17: when every input record converts, no operation is lost, duplicated
\* or reordered: the operations of the output transactions, concatenated in
\* output order, are one operation per input record in input order; an
\* empty input gives an empty output.
C17_OperationsPreserved ==
    /\ (pc = "core" /\ AllConvert) =>
          /\ Len(Flatten(output.v.v)) = Len(records)
          /\ \A i \in 1..Len(records) :
                Flatten(output.v.v)[i] = try_into(records[i]).v
    /\ pc = "importer" =>
          /\ Len(Flatten(output.v)) = Len(records)
          /\ \A i \in 1..Len(records) :
                Flatten(output.v)[i] = importer_into(records[i])
    /\ (pc \in {"core", "importer"} /\ records = <<>>) => Len(Transactions) = 0

\* four converting records with timestamps [t2, t1, t1, t2] were grouped
\* into three transactions
C17_Witness ==
    /\ pc = "core"
    /\ AllConvert
    /\ Whens = <<2, 1, 1, 2>>
    /\ records[2] # records[3]
    /\ Len(output.v.v) = 3
    /\ Len(Flatten(output.v.v)) = 4

\* C18: every Transaction returned by group_records_into_transactions has
\* started_at = finished_at = the timestamp of the records of its group, and
\* all of its operations have that executed_at, sorted input or not.
C18_OneInstantPerTransaction ==
    pc \in {"core", "importer"} =>
        \A k \in 1..Len(Transactions) :
            LET t == Transactions[k]
            IN  /\ t.started_at = t.finished_at
                /\ \A j \in 1..Len(t.operations) :
                      t.operations[j].executed_at = t.started_at
                /\ pc = "core" => t.started_at = records[KthGoodRun(k)].when
                /\ pc = "importer" => t.started_at = records[KthRun(k)].when

\* an input that is not sorted by timestamp gave two transactions, the
\* later instant first
C18_Witness ==
    /\ pc = "core"
    /\ Whens = <<2, 2, 1>>
    /\ Len(output.v.v) = 2
    /\ output.v.v[1].started_at = 2
    /\ output.v.v[2].finished_at = 1

====
